---- MODULE Spec2Model ----
(***************************************************************************)
(* Session-lifecycle manager and queue-driven dispatch gateway of the      *)
(* WhatsApp service: whatsapp-service/index.js (single-session handlers,   *)
(* the two queue consumers, startup) and                                   *)
(* whatsapp-service/multi-instance-manager.js (the registry of clients,    *)
(* the provider event handlers, discovery polling, destroyClient, cleanup), *)
(* with the signal handlers and the phone formatting of both consumers.    *)
(*                                                                         *)
(* Every `await` of the source is a point where other callbacks may run:   *)
(* a handler is one action up to its first await and one action per        *)
(* continuation.  The provider (whatsapp-web.js), the store (PostgreSQL)   *)
(* and the broker (RabbitMQ) are the environment: which event a client     *)
(* emits, whether a store write or a provider send succeeds, and when a    *)
(* delivery happens are nondeterministic choices.                          *)
(***************************************************************************)
EXTENDS Naturals, Sequences, FiniteSets, Bags, TLC

(* ------------------------------ bounds --------------------------------- *)
\* client objects a run of the gateway may construct
MaxHandles == 2
\* the same, in a run with two deliveries
PairHandles == 1
\* provider events a run may deliver
MaxEvents == 3
\* deliveries of one message that may end in a requeue
MaxRequeues == 1
\* clients and events of a run of the manager alone
RegHandles == 3
RegEvents == 3
\* provider events of a run with two active instances
RouteEvents == 2
\* clients and events of a run in which rows are switched on and off
PollHandles == 2
PollEvents == 2
\* digits of the longest number body among the phone inputs
MaxDigits == 11
\* provider events in the runs with HTTP queries
QueryEvents == 2
\* failed fetches of the desired-session list in the runs that have any
FetchFails == 1
\* clients constructed in those runs
FetchHandles == 1

(* ----------------------------- universes ------------------------------- *)
\* instance ids of the whatsapp_instances table
Ids == {"A", "B"}
\* the implicit singleton session of single-session mode
Solo == "solo"
Sessions == Ids \cup {Solo}
None == "none"

\* payloads of the work queue: the JSON text parses or not; a parsed object
\* has or lacks instance_id, phone_number and message
Payload(j, i, ph, b) == [json |-> j, instance_id |-> i, phone_number |-> ph, message |-> b]
WellFormed(i) == Payload(TRUE, i, TRUE, TRUE)
NoPhone(i) == Payload(TRUE, i, FALSE, TRUE)
NoBody(i) == Payload(TRUE, i, TRUE, FALSE)
NoInstance == Payload(TRUE, None, TRUE, TRUE)
BadJson == Payload(FALSE, None, FALSE, FALSE)
Payloads == {WellFormed("A"), NoPhone("A"), NoBody("A"), NoInstance, BadJson}

\* deliveries of the work queue: one of any payload, or two well-formed ones
MsgSlots == {1}
PairSlots == {1, 2}

VARIABLES
  mode,            \* ENABLE_MULTI_INSTANCE: "multi" or "single"
  phase,           \* "connecting" until connectRabbitMQ succeeds, then "running"
  currentQR,       \* single-session: a QR token is stored
  isReady,         \* single-session readiness flag
  clientInfo,      \* single-session: a client identity is cached
  activeClients,   \* Map<instanceId, {client, instance, isReady, clientInfo}>
  pendingQRCodes,  \* keys of Map<instanceId, qrCode>
  handles,         \* every Client constructed so far, in construction order
  tasks,           \* event handlers suspended at their store write
  destroying,      \* destroyClient calls suspended at client.destroy()
  fetched,         \* instances a running poll has fetched and not yet visited
  store,           \* rows of whatsapp_instances
  msgs,            \* the deliveries of the work queue and their handlers
  statusQueue,     \* bag of the status events published
  lifecycle,       \* per session, the state its last provider event led to
  okSends,         \* per session, provider sends that completed successfully
  eventsLeft,      \* provider events the run may still deliver
  handlesLeft,     \* clients the run may still construct
  cleanupAt,       \* the client whose destroy() the signal handler awaits (0: whatsappClient)
  cleanupSeen,     \* clients the signal handler has called destroy() on
  poolOpen,        \* pool.end() has not completed
  channelOk,       \* rabbitChannel.sendToQueue succeeds (FALSE: it throws)
  fetchFailsLeft,  \* failed fetches of a poll the run may still count
  reply            \* what the last status query returned

regVars == <<activeClients, pendingQRCodes, handles, tasks, destroying, fetched>>
soloVars == <<currentQR, isReady, clientInfo>>
envVars == <<channelOk, fetchFailsLeft, reply>>
cleanupVars == <<cleanupAt, cleanupSeen, poolOpen>>
cfgVars == <<mode, envVars, phase, handlesLeft, cleanupVars>>
vars == <<mode, phase, currentQR, isReady, clientInfo, activeClients, pendingQRCodes,
          handles, tasks, destroying, fetched, store, msgs, statusQueue, lifecycle,
          okSends, eventsLeft, handlesLeft, cleanupAt, cleanupSeen, poolOpen, channelOk,
          fetchFailsLeft,
          reply>>

(* ------------------------------ registry ------------------------------- *)
\* the value standing for "the Map has no such key"
NoEntry == [client |-> 0, isReady |-> FALSE, clientInfo |-> FALSE]

\* activeClients.has(instanceId)
Has(i) == activeClients[i].client # 0

\* the client stored in the entry of instance i (0: no entry)
EntryOf(i) == activeClients[i].client

\* getClient: the client of a registered, ready instance, else null (0)
getClient(i) ==
  IF i \in Ids /\ Has(i) /\ activeClients[i].isReady THEN activeClients[i].client ELSE 0

HandleIds == 1..Len(handles)

\* the poll timer fires, the clients emit and the suspended callbacks resume
\* from the moment they are started until the process exits: the signal
\* handlers cancel none of them
Consuming == phase \in {"running", "stopping", "ending", "closing"}

\* a signal handler has called rabbitChannel.close(): from then on the
\* channel hands over no delivery and its sendToQueue, ack and nack throw
channelClosed == phase = "closing"

\* the consumer is handed deliveries while its channel is open
Delivering == Consuming /\ ~channelClosed

\* a client that was constructed, whose initialize() has not failed and on
\* which destroy() has not completed
Live(h) == handles[h].init # "failed" /\ ~handles[h].destroyed

(* --------------------------- status publisher -------------------------- *)
StatusEvent(kind, mid, inst, err) ==
  [status |-> kind, message_id |-> mid, instance_id |-> inst, error |-> err]

\* publishStatus: one record appended to the status queue; when sendToQueue
\* throws, the error is logged and nothing is appended
publishStatus(q, ev) == IF channelOk /\ ~channelClosed THEN q (+) SetToBag({ev}) ELSE q

\* the status field published for a provider event
StatusKind(kind) == IF kind = "qr" THEN "qr_code" ELSE kind

\* the lifecycle state a provider event leads to
lifecycleAfter(kind) ==
  CASE kind = "qr" -> "qr_pending"
    [] kind = "authenticated" -> "authenticated"
    [] kind = "ready" -> "ready"
    [] kind = "disconnected" -> "disconnected"
    [] OTHER -> "auth_failure"

\* the order in which a whatsapp-web.js client emits its events: a QR (again
\* on refresh, and when a linked session is lost), authenticated, then ready;
\* disconnected once authenticated; auth_failure before authentication, after
\* which the client emits nothing more
Follows(kind, state) ==
  CASE kind = "qr" -> state \in {"unauthenticated", "qr_pending", "ready", "disconnected"}
    [] kind = "authenticated" -> state \in {"unauthenticated", "qr_pending"}
    [] kind = "ready" -> state = "authenticated"
    [] kind = "disconnected" -> state \in {"authenticated", "ready"}
    [] OTHER -> state \in {"unauthenticated", "qr_pending"}

(* --------------------------- status queries --------------------------- *)
\* an HTTP response: status code and the fields of its body
Response(code, ready, qr, info, rows) ==
  [code |-> code, ready |-> ready, qr |-> qr, info |-> info, rows |-> rows]

\* no request was answered yet
NoReply == Response(0, FALSE, FALSE, FALSE, {})

\* the row getActiveInstances returns for a registered instance
Listing(i) ==
  [instance_id |-> i, is_ready |-> activeClients[i].isReady,
   has_qr |-> i \in pendingQRCodes, client_info |-> activeClients[i].clientInfo]

getActiveInstances == {Listing(i) : i \in {j \in Ids : Has(j)}}

\* getQRCode: a QR is stored for the instance
getQRCode(i) == i \in pendingQRCodes

\* instanceManager is assigned by initialize() in multi-session mode
HasManager == mode = "multi" /\ phase # "connecting"

(* -------------------------------- Init --------------------------------- *)
NewMsg(p) ==
  [payload |-> p, st |-> "queued", via |-> 0, delivered |-> 0, acks |-> 0,
   requeues |-> 0, drops |-> 0, sends |-> 0]

\* the state after the module is loaded, before initialize() has connected,
\* with the deliveries q waiting in the work queue and a run of at most nh
\* clients, ne provider events and nf failed fetches ahead
StartFull(modes, q, nh, ne, active, nf) ==
  /\ mode \in modes
  /\ phase = "connecting"
  /\ currentQR = FALSE
  /\ isReady = FALSE
  /\ clientInfo = FALSE
  /\ activeClients = [i \in Ids |-> NoEntry]
  /\ pendingQRCodes = {}
  /\ handles = <<>>
  /\ tasks = {}
  /\ destroying = {}
  /\ fetched = {}
  /\ store = [i \in Ids |-> [is_active |-> i \in active, is_authenticated |-> FALSE,
                            messages_sent |-> 0]]
  /\ msgs = q
  /\ statusQueue = EmptyBag
  /\ lifecycle = [s \in Sessions |-> "unauthenticated"]
  /\ okSends = [s \in Sessions |-> 0]
  /\ eventsLeft = ne
  /\ handlesLeft = nh
  /\ cleanupAt = {}
  /\ cleanupSeen = {}
  /\ poolOpen = TRUE
  /\ channelOk = TRUE
  /\ fetchFailsLeft = nf
  /\ reply = NoReply

\* the same with a store that answers every fetch
StartWith(modes, q, nh, ne, active) == StartFull(modes, q, nh, ne, active, 0)

\* the same with one active row, A, in whatsapp_instances
Start(modes, q, nh, ne) == StartWith(modes, q, nh, ne, {"A"})

Modes == {"single", "multi"}

Init ==
  \E q \in [MsgSlots -> {NewMsg(p) : p \in Payloads}] : Start(Modes, q, MaxHandles, MaxEvents)

\* two well-formed requests for the same session wait in the work queue
InitPair ==
  Start(Modes, [m \in PairSlots |-> NewMsg(WellFormed("A"))], PairHandles, MaxEvents)

\* the manager alone: no delivery waits in the work queue
InitRegistry == Start({"multi"}, <<>>, RegHandles, RegEvents)

(* ------------------------------ startup ------------------------------- *)
\* initialize() going on to fetch the instances when connectRabbitMQ failed
initializeUngated(ok) ==
  /\ phase = "connecting"
  /\ phase' = IF ok THEN "running" ELSE "connecting"
  /\ \E fok \in BOOLEAN :
       fetched' = IF mode = "multi" /\ fok
                    THEN {i \in Ids : store[i].is_active} ELSE fetched
  /\ UNCHANGED <<mode, envVars, handlesLeft, cleanupVars, soloVars, activeClients, pendingQRCodes,
                 handles, tasks, destroying, store, msgs, statusQueue, lifecycle, okSends,
                 eventsLeft>>

\* initialize(): connectRabbitMQ fails (retry after 5 s) or succeeds; on
\* success the single-session variant starts its consumer and calls
\* whatsappClient.initialize(); the multi-session variant fetches the
\* instances (an empty list when the query fails) and starts the consumer
\* and the poll timer
initialize(ok) ==
  /\ phase = "connecting"
  /\ phase' = IF ok THEN "running" ELSE "connecting"
  /\ \E fok \in BOOLEAN :
       fetched' = IF ok /\ mode = "multi" /\ fok
                    THEN {i \in Ids : store[i].is_active} ELSE fetched
  /\ UNCHANGED <<mode, envVars, handlesLeft, cleanupVars, soloVars, activeClients, pendingQRCodes,
                 handles, tasks, destroying, store, msgs, statusQueue, lifecycle, okSends,
                 eventsLeft>>

(* --------------------------- discovery polling ------------------------- *)
\* a failed query is counted while the run has failures left to count
CountFailure(ok) ==
  fetchFailsLeft' = IF ok \/ fetchFailsLeft = 0 THEN fetchFailsLeft ELSE fetchFailsLeft - 1

\* the query without its WHERE is_active = TRUE
fetchInstancesAllRows(ok) ==
  /\ mode = "multi" /\ Consuming
  /\ ok => poolOpen
  /\ fetched' = IF ok THEN fetched \cup Ids ELSE fetched
  /\ CountFailure(ok)
  /\ UNCHANGED <<mode, phase, handlesLeft, cleanupVars, channelOk, reply, soloVars,
                 activeClients, pendingQRCodes, handles, tasks, destroying, store, msgs,
                 statusQueue, lifecycle, okSends, eventsLeft>>

\* a failed query emptying both maps
fetchInstancesResetting(ok) ==
  /\ mode = "multi" /\ Consuming
  /\ ok => poolOpen
  /\ fetched' = IF ok THEN fetched \cup {i \in Ids : store[i].is_active} ELSE fetched
  /\ CountFailure(ok)
  /\ activeClients' = IF ok THEN activeClients ELSE [i \in Ids |-> NoEntry]
  /\ pendingQRCodes' = IF ok THEN pendingQRCodes ELSE {}
  /\ UNCHANGED <<mode, phase, handlesLeft, cleanupVars, channelOk, reply, soloVars,
                 handles, tasks, destroying, store, msgs,
                 statusQueue, lifecycle, okSends, eventsLeft>>

\* fetchInstances inside pollForNewInstances: the active rows, or [] when
\* the query fails; the timer does not wait for an earlier poll
fetchInstances(ok) ==
  /\ mode = "multi" /\ Consuming
  /\ ok => poolOpen
  /\ fetched' = IF ok THEN fetched \cup {i \in Ids : store[i].is_active} ELSE fetched
  /\ CountFailure(ok)
  /\ UNCHANGED <<mode, phase, handlesLeft, cleanupVars, channelOk, reply, soloVars,
                 activeClients, pendingQRCodes, handles, tasks, destroying, store, msgs,
                 statusQueue, lifecycle, okSends, eventsLeft>>

\* initializeClient up to `await client.initialize()`: construct the client,
\* wire its handlers, store the entry
initializeClient(i) ==
  /\ handles' = Append(handles, [id |-> i, init |-> "pending", destroyed |-> FALSE,
                               state |-> "unauthenticated",
                               failsLeft |-> fetchFailsLeft])
  /\ activeClients' = [activeClients EXCEPT
                         ![i] = [client |-> Len(handles) + 1, isReady |-> FALSE,
                                 clientInfo |-> FALSE]]

\* an iteration that constructs a client without looking the id up first
pollForNewInstancesUnchecked(i) ==
  /\ mode = "multi" /\ Consuming
  /\ i \in fetched
  /\ fetched' = fetched \ {i}
  /\ handlesLeft > 0
  /\ handlesLeft' = handlesLeft - 1
  /\ initializeClient(i)
  /\ UNCHANGED <<mode, envVars, phase, cleanupVars, soloVars, pendingQRCodes, tasks, destroying,
                 store, msgs, statusQueue, lifecycle, okSends, eventsLeft>>

\* one iteration of the loop of pollForNewInstances (and of the startup loop)
pollForNewInstances(i) ==
  /\ mode = "multi" /\ Consuming
  /\ i \in fetched
  /\ fetched' = fetched \ {i}
  /\ IF Has(i)
       THEN UNCHANGED <<handles, activeClients, handlesLeft>>
       ELSE /\ handlesLeft > 0
            /\ handlesLeft' = handlesLeft - 1
            /\ initializeClient(i)
  /\ UNCHANGED <<mode, envVars, phase, cleanupVars, soloVars, pendingQRCodes, tasks, destroying,
                 store, msgs, statusQueue, lifecycle, okSends, eventsLeft>>

\* client.initialize() resolves
initializeResolved(h) ==
  /\ h \in HandleIds /\ handles[h].init = "pending"
  /\ handles' = [handles EXCEPT ![h].init = "ok"]
  /\ UNCHANGED <<cfgVars, soloVars, activeClients, pendingQRCodes, tasks, destroying,
                 fetched, store, msgs, statusQueue, lifecycle, okSends, eventsLeft>>

\* client.initialize() rejects: the catch deletes the entry under the id
initializeRejected(h) ==
  /\ h \in HandleIds /\ handles[h].init = "pending"
  /\ handles' = [handles EXCEPT ![h].init = "failed"]
  /\ activeClients' = [activeClients EXCEPT ![handles[h].id] = NoEntry]
  /\ UNCHANGED <<cfgVars, soloVars, pendingQRCodes, tasks, destroying, fetched, store,
                 msgs, statusQueue, lifecycle, okSends, eventsLeft>>

\* destroyClient up to `await clientData.client.destroy()`
destroyClient(i) ==
  /\ mode = "multi" /\ Consuming
  /\ Has(i)
  /\ activeClients[i].client \notin destroying
  /\ destroying' = destroying \cup {activeClients[i].client}
  /\ UNCHANGED <<cfgVars, soloVars, activeClients, pendingQRCodes, handles, tasks,
                 fetched, store, msgs, statusQueue, lifecycle, okSends, eventsLeft>>

\* destroyClient after the await: on success delete the entry and the QR
\* under the id; on failure return false
destroyResolved(h, ok) ==
  /\ h \in destroying
  /\ destroying' = destroying \ {h}
  /\ IF ok
       THEN /\ handles' = [handles EXCEPT ![h].destroyed = TRUE]
            /\ activeClients' = [activeClients EXCEPT ![handles[h].id] = NoEntry]
            /\ pendingQRCodes' = pendingQRCodes \ {handles[h].id}
       ELSE UNCHANGED <<handles, activeClients, pendingQRCodes>>
  /\ UNCHANGED <<cfgVars, soloVars, tasks, fetched, store, msgs, statusQueue,
                 lifecycle, okSends, eventsLeft>>

(* ------------------ provider events, multi-session --------------------- *)
\* a client can emit while it is live; at most one handler of a kind per
\* client is suspended at a time
CanEmit(h, kind) ==
  /\ mode = "multi" /\ Consuming
  /\ eventsLeft > 0
  /\ h \in HandleIds /\ Live(h)
  /\ Follows(kind, handles[h].state)

\* the event is delivered: the client has moved on, and so has the session
Emitted(h, kind) ==
  /\ handles' = [handles EXCEPT ![h].state = lifecycleAfter(kind)]
  /\ lifecycle' = [lifecycle EXCEPT ![handles[h].id] = lifecycleAfter(kind)]
  /\ eventsLeft' = eventsLeft - 1

Task(h, kind) == [h |-> h, kind |-> kind]

\* client.on('qr') up to its store write
onQr(h) ==
  /\ CanEmit(h, "qr") /\ Task(h, "qr") \notin tasks
  /\ pendingQRCodes' = pendingQRCodes \cup {handles[h].id}
  /\ tasks' = tasks \cup {Task(h, "qr")}
  /\ Emitted(h, "qr")
  /\ UNCHANGED <<cfgVars, soloVars, activeClients, destroying, fetched, store,
                 msgs, statusQueue, okSends>>

\* client.on('qr') after the store write: the status is published inside the
\* try, so only when the write succeeded
onQrWritten(h, ok) ==
  /\ Task(h, "qr") \in tasks
  /\ tasks' = tasks \ {Task(h, "qr")}
  /\ statusQueue' = IF ok
                      THEN publishStatus(statusQueue,
                             StatusEvent("qr_code", None, handles[h].id, None))
                      ELSE statusQueue
  /\ UNCHANGED <<cfgVars, soloVars, activeClients, pendingQRCodes, handles, destroying,
                 fetched, store, msgs, lifecycle, okSends, eventsLeft>>

\* client.on('authenticated')
onAuthenticated(h) ==
  /\ CanEmit(h, "authenticated")
  /\ statusQueue' = publishStatus(statusQueue,
                      StatusEvent("authenticated", None, handles[h].id, None))
  /\ Emitted(h, "authenticated")
  /\ UNCHANGED <<cfgVars, soloVars, activeClients, pendingQRCodes, tasks, destroying,
                 fetched, store, msgs, okSends>>

\* client.on('ready') up to its store write
onReady(h) ==
  /\ CanEmit(h, "ready") /\ Task(h, "ready") \notin tasks
  /\ pendingQRCodes' = pendingQRCodes \ {handles[h].id}
  /\ tasks' = tasks \cup {Task(h, "ready")}
  /\ Emitted(h, "ready")
  /\ UNCHANGED <<cfgVars, soloVars, activeClients, destroying, fetched, store,
                 msgs, statusQueue, okSends>>

\* client.on('ready') after the store write: a failed write skips to the
\* catch; otherwise the entry under the id, if any, becomes ready
onReadyWritten(h, ok) ==
  /\ Task(h, "ready") \in tasks
  /\ tasks' = tasks \ {Task(h, "ready")}
  /\ IF ok
       THEN /\ store' = [store EXCEPT ![handles[h].id].is_authenticated = TRUE]
            /\ activeClients' =
                 IF Has(handles[h].id)
                   THEN [activeClients EXCEPT ![handles[h].id].isReady = TRUE,
                                              ![handles[h].id].clientInfo = TRUE]
                   ELSE activeClients
            /\ statusQueue' = publishStatus(statusQueue,
                                StatusEvent("ready", None, handles[h].id, None))
       ELSE UNCHANGED <<store, activeClients, statusQueue>>
  /\ UNCHANGED <<cfgVars, soloVars, pendingQRCodes, handles, destroying, fetched, msgs,
                 lifecycle, okSends, eventsLeft>>

\* client.on('disconnected') up to its store write
onDisconnected(h) ==
  /\ CanEmit(h, "disconnected") /\ Task(h, "disconnected") \notin tasks
  /\ tasks' = tasks \cup {Task(h, "disconnected")}
  /\ Emitted(h, "disconnected")
  /\ UNCHANGED <<cfgVars, soloVars, activeClients, pendingQRCodes, destroying,
                 fetched, store, msgs, statusQueue, okSends>>

\* client.on('disconnected') after the store write, failed or not: the entry
\* under the id, if any, stops being ready
onDisconnectedWritten(h, ok) ==
  /\ Task(h, "disconnected") \in tasks
  /\ tasks' = tasks \ {Task(h, "disconnected")}
  /\ store' = IF ok THEN [store EXCEPT ![handles[h].id].is_authenticated = FALSE]
                    ELSE store
  /\ activeClients' = IF Has(handles[h].id)
                        THEN [activeClients EXCEPT ![handles[h].id].isReady = FALSE]
                        ELSE activeClients
  /\ statusQueue' = publishStatus(statusQueue,
                      StatusEvent("disconnected", None, handles[h].id, None))
  /\ UNCHANGED <<cfgVars, soloVars, pendingQRCodes, handles, destroying, fetched, msgs,
                 lifecycle, okSends, eventsLeft>>

\* the auth_failure handler dropping the stored QR as well
onAuthFailureClearingQr(h) ==
  /\ CanEmit(h, "auth_failure")
  /\ statusQueue' = publishStatus(statusQueue,
                      StatusEvent("auth_failure", None, handles[h].id, None))
  /\ pendingQRCodes' = pendingQRCodes \ {handles[h].id}
  /\ Emitted(h, "auth_failure")
  /\ UNCHANGED <<cfgVars, soloVars, activeClients, tasks, destroying,
                 fetched, store, msgs, okSends>>

\* client.on('auth_failure')
onAuthFailure(h) ==
  /\ CanEmit(h, "auth_failure")
  /\ statusQueue' = publishStatus(statusQueue,
                      StatusEvent("auth_failure", None, handles[h].id, None))
  /\ Emitted(h, "auth_failure")
  /\ UNCHANGED <<cfgVars, soloVars, activeClients, pendingQRCodes, tasks, destroying,
                 fetched, store, msgs, okSends>>

(* ------------------ provider events, single-session -------------------- *)
\* whatsappClient emits once initialize() has called whatsappClient.initialize()
SoloCanEmit(kind) ==
  /\ mode = "single" /\ phase \in {"running", "stopping"}
  /\ eventsLeft > 0
  /\ Follows(kind, lifecycle[Solo])

SoloEvent(kind) ==
  /\ statusQueue' = publishStatus(statusQueue,
                      StatusEvent(StatusKind(kind), None, None, None))
  /\ lifecycle' = [lifecycle EXCEPT ![Solo] = lifecycleAfter(kind)]
  /\ eventsLeft' = eventsLeft - 1
  /\ UNCHANGED <<cfgVars, regVars, store, msgs, okSends>>

\* the qr handler without its isReady = false
soloQrKeepingReady ==
  /\ SoloCanEmit("qr")
  /\ currentQR' = TRUE
  /\ UNCHANGED <<isReady, clientInfo>>
  /\ SoloEvent("qr")

\* whatsappClient.on('qr')
soloQr ==
  /\ SoloCanEmit("qr")
  /\ currentQR' = TRUE
  /\ isReady' = FALSE
  /\ UNCHANGED clientInfo
  /\ SoloEvent("qr")

\* whatsappClient.on('authenticated')
soloAuthenticated ==
  /\ SoloCanEmit("authenticated")
  /\ UNCHANGED soloVars
  /\ SoloEvent("authenticated")

\* whatsappClient.on('ready')
soloReady ==
  /\ SoloCanEmit("ready")
  /\ currentQR' = FALSE
  /\ isReady' = TRUE
  /\ clientInfo' = TRUE
  /\ SoloEvent("ready")

\* whatsappClient.on('disconnected')
soloDisconnected ==
  /\ SoloCanEmit("disconnected")
  /\ isReady' = FALSE
  /\ clientInfo' = FALSE
  /\ UNCHANGED currentQR
  /\ SoloEvent("disconnected")

\* whatsappClient.on('auth_failure')
soloAuthFailure ==
  /\ SoloCanEmit("auth_failure")
  /\ UNCHANGED soloVars
  /\ SoloEvent("auth_failure")

(* --------------------------- dispatch consumer ------------------------- *)
\* error texts carried by message_failed
ErrNoInstance == "No instance_id provided"
ErrNotReady == "Instance not ready or not found"
ErrSoloNotReady == "WhatsApp client not ready"
ErrType == "TypeError"
ErrProvider == "provider error"

\* the session a parsed request is dispatched to
Target(m) == IF mode = "single" THEN Solo ELSE msgs[m].payload.instance_id

\* JSON.parse throws in the try and again in the catch: the callback rejects
\* with the delivery neither acked nor nacked
Crash(m) ==
  /\ msgs' = [msgs EXCEPT ![m].st = "crashed", ![m].delivered = @ + 1]
  /\ UNCHANGED statusQueue

\* the not-ready branch with the requeue flag of nack false
NackRequeueFlagFalse(m, inst, err) ==
  /\ msgs' = [msgs EXCEPT ![m].st = "dropped", ![m].delivered = @ + 1, ![m].drops = @ + 1]
  /\ statusQueue' = publishStatus(statusQueue, StatusEvent("message_failed", m, inst, err))

\* the not-ready branch with a publishStatus that lets the error of
\* sendToQueue through: the catch block nacks without requeue
NackRequeueThrowing(m, inst, err) ==
  /\ msgs' = IF channelOk
               THEN [msgs EXCEPT ![m].st = "queued", ![m].delivered = @ + 1,
                                 ![m].requeues = @ + 1]
               ELSE [msgs EXCEPT ![m].st = "dropped", ![m].delivered = @ + 1,
                                 ![m].drops = @ + 1]
  /\ statusQueue' = publishStatus(statusQueue, StatusEvent("message_failed", m, inst, err))

\* publishStatus(message_failed); rabbitChannel.nack(msg, false, true)
NackRequeue(m, inst, err) ==
  /\ msgs' = [msgs EXCEPT ![m].st = "queued", ![m].delivered = @ + 1,
                          ![m].requeues = @ + 1]
  /\ statusQueue' = publishStatus(statusQueue, StatusEvent("message_failed", m, inst, err))

\* the catch block with the requeue flag of nack true
NackDropFlagTrue(m, inst, err, first) ==
  /\ msgs' = [msgs EXCEPT ![m].st = "queued",
                          ![m].delivered = IF first THEN @ + 1 ELSE @,
                          ![m].requeues = @ + 1]
  /\ statusQueue' = publishStatus(statusQueue, StatusEvent("message_failed", m, inst, err))

\* publishStatus(message_failed); rabbitChannel.nack(msg, false, false); on a
\* closed channel the nack throws out of the catch and the callback rejects
\* with the delivery unacknowledged
NackDrop(m, inst, err, first) ==
  /\ msgs' = [msgs EXCEPT ![m].st = IF channelClosed THEN "crashed" ELSE "dropped",
                          ![m].delivered = IF first THEN @ + 1 ELSE @,
                          ![m].drops = @ + 1]
  /\ statusQueue' = publishStatus(statusQueue, StatusEvent("message_failed", m, inst, err))

\* the send issued on the first client constructed instead of the one looked up
InvokeSendFirstClient(m, h) ==
  /\ msgs' = [msgs EXCEPT ![m].st = "sending", ![m].via = 1, ![m].delivered = @ + 1,
                          ![m].sends = @ + 1]
  /\ UNCHANGED statusQueue

\* client.sendMessage(formattedNumber, message) is called and awaited
InvokeSend(m, h) ==
  /\ msgs' = [msgs EXCEPT ![m].st = "sending", ![m].via = h, ![m].delivered = @ + 1,
                          ![m].sends = @ + 1]
  /\ UNCHANGED statusQueue

\* the success path without its publishStatus(message_sent)
AckUnpublished(m, inst) ==
  /\ msgs' = [msgs EXCEPT ![m].st = "delay", ![m].acks = @ + 1]
  /\ UNCHANGED statusQueue

\* the success path without its rabbitChannel.ack(msg)
AckForgotten(m, inst) ==
  /\ msgs' = [msgs EXCEPT ![m].st = "delay"]
  /\ statusQueue' = publishStatus(statusQueue, StatusEvent("message_sent", m, inst, None))

\* publishStatus(message_sent); rabbitChannel.ack(msg); on a closed channel
\* the ack throws into the catch, which calls publishStatus(message_failed)
\* and rabbitChannel.nack(msg, false, false), and the nack throws as well
Ack(m, inst) ==
  /\ msgs' = IF channelClosed
               THEN [msgs EXCEPT ![m].st = "crashed", ![m].drops = @ + 1]
               ELSE [msgs EXCEPT ![m].st = "delay", ![m].acks = @ + 1]
  /\ statusQueue' = publishStatus(statusQueue, StatusEvent("message_sent", m, inst, None))

\* the callback rejecting for good a request whose instance has no entry
processMultiInstanceMessagesDroppingAbsent(m) ==
  /\ mode = "multi" /\ Delivering
  /\ msgs[m].st = "queued"
  /\ LET p == msgs[m].payload
         i == p.instance_id
     IN  CASE ~p.json -> Crash(m)
           [] p.json /\ i = None -> NackDrop(m, None, ErrNoInstance, TRUE)
           [] p.json /\ i # None /\ ~Has(i) -> NackDrop(m, i, ErrNotReady, TRUE)
           [] p.json /\ i # None /\ Has(i) /\ getClient(i) = 0 ->
                /\ msgs[m].requeues < MaxRequeues
                /\ NackRequeue(m, i, ErrNotReady)
           [] p.json /\ i # None /\ getClient(i) # 0 /\ ~p.phone_number ->
                NackDrop(m, i, ErrType, TRUE)
           [] OTHER -> InvokeSend(m, getClient(i))
  /\ UNCHANGED <<cfgVars, soloVars, regVars, store, lifecycle, okSends, eventsLeft>>

\* the callback with the readiness lookup placed before the instance_id test
processMultiInstanceMessagesLookupFirst(m) ==
  /\ mode = "multi" /\ Delivering
  /\ msgs[m].st = "queued"
  /\ LET p == msgs[m].payload
         i == p.instance_id
     IN  CASE ~p.json -> Crash(m)
           [] p.json /\ getClient(i) = 0 ->
                /\ msgs[m].requeues < MaxRequeues
                /\ NackRequeue(m, i, ErrNotReady)
           [] p.json /\ getClient(i) # 0 /\ ~p.phone_number ->
                NackDrop(m, i, ErrType, TRUE)
           [] OTHER -> InvokeSend(m, getClient(i))
  /\ UNCHANGED <<cfgVars, soloVars, regVars, store, lifecycle, okSends, eventsLeft>>

\* the consume callback of processMultiInstanceMessages up to the await of
\* instanceManager.sendMessage, which itself runs up to client.sendMessage
processMultiInstanceMessages(m) ==
  /\ mode = "multi" /\ Delivering
  /\ msgs[m].st = "queued"
  /\ LET p == msgs[m].payload
         i == p.instance_id
     IN  CASE ~p.json -> Crash(m)
           [] p.json /\ i = None -> NackDrop(m, None, ErrNoInstance, TRUE)
           [] p.json /\ i # None /\ getClient(i) = 0 ->
                /\ msgs[m].requeues < MaxRequeues
                /\ NackRequeue(m, i, ErrNotReady)
           [] p.json /\ i # None /\ getClient(i) # 0 /\ ~p.phone_number ->
                NackDrop(m, i, ErrType, TRUE)
           [] OTHER -> InvokeSend(m, getClient(i))
  /\ UNCHANGED <<cfgVars, soloVars, regVars, store, lifecycle, okSends, eventsLeft>>

\* the consume callback of processMessages up to the await of
\* whatsappClient.sendMessage
processMessages(m) ==
  /\ mode = "single" /\ Delivering
  /\ msgs[m].st = "queued"
  /\ LET p == msgs[m].payload
     IN  CASE ~p.json -> Crash(m)
           [] p.json /\ ~isReady ->
                /\ msgs[m].requeues < MaxRequeues
                /\ NackRequeue(m, None, ErrSoloNotReady)
           [] p.json /\ isReady /\ ~p.phone_number -> NackDrop(m, None, ErrType, TRUE)
           [] OTHER -> InvokeSend(m, 0)
  /\ UNCHANGED <<cfgVars, soloVars, regVars, store, lifecycle, okSends, eventsLeft>>

\* the catch of a rejected send also marking the session not ready
sendRejectedMarkingNotReady(m) ==
  /\ msgs[m].st = "sending"
  /\ NackDrop(m, IF mode = "multi" THEN msgs[m].payload.instance_id ELSE None,
              ErrProvider, FALSE)
  /\ IF mode = "multi"
       THEN /\ activeClients' = [activeClients EXCEPT ![msgs[m].payload.instance_id].isReady = FALSE]
            /\ UNCHANGED soloVars
       ELSE /\ isReady' = FALSE
            /\ UNCHANGED <<currentQR, clientInfo, activeClients>>
  /\ UNCHANGED <<cfgVars, pendingQRCodes, handles, tasks, destroying, fetched,
                 store, lifecycle, okSends, eventsLeft>>

\* the provider send rejects: the catch publishes message_failed with the
\* error text and nacks without requeue
sendRejected(m) ==
  /\ msgs[m].st = "sending"
  /\ NackDrop(m, IF mode = "multi" THEN msgs[m].payload.instance_id ELSE None,
              ErrProvider, FALSE)
  /\ UNCHANGED <<cfgVars, soloVars, regVars, store, lifecycle, okSends, eventsLeft>>

\* the provider send resolves: the single-session callback publishes
\* message_sent and acks; MultiInstanceManager.sendMessage goes on to its
\* counter update
sendResolved(m) ==
  /\ msgs[m].st = "sending"
  /\ okSends' = [okSends EXCEPT ![Target(m)] = @ + 1]
  /\ IF mode = "multi"
       THEN /\ msgs' = [msgs EXCEPT ![m].st = "counting"]
            /\ UNCHANGED statusQueue
       ELSE Ack(m, None)
  /\ UNCHANGED <<cfgVars, soloVars, regVars, store, lifecycle, eventsLeft>>

\* the counter update without its own try/catch: a failed update reaches the
\* catch of the callback
counterWrittenRethrowing(m, ok) ==
  /\ msgs[m].st = "counting"
  /\ store' = IF ok THEN [store EXCEPT ![msgs[m].payload.instance_id].messages_sent = @ + 1]
                    ELSE store
  /\ IF ok THEN Ack(m, msgs[m].payload.instance_id)
           ELSE NackDrop(m, msgs[m].payload.instance_id, ErrProvider, FALSE)
  /\ UNCHANGED <<cfgVars, soloVars, regVars, lifecycle, okSends, eventsLeft>>

\* MultiInstanceManager.sendMessage after its counter update (its failure is
\* logged and swallowed), then the rest of the callback: message_sent, ack
counterWritten(m, ok) ==
  /\ msgs[m].st = "counting"
  /\ store' = IF ok THEN [store EXCEPT ![msgs[m].payload.instance_id].messages_sent = @ + 1]
                    ELSE store
  /\ Ack(m, msgs[m].payload.instance_id)
  /\ UNCHANGED <<cfgVars, soloVars, regVars, lifecycle, okSends, eventsLeft>>

\* the 1000 ms delay after the ack ends and the callback returns
delayDone(m) ==
  /\ msgs[m].st = "delay"
  /\ msgs' = [msgs EXCEPT ![m].st = "acked"]
  /\ UNCHANGED <<cfgVars, soloVars, regVars, store, statusQueue, lifecycle, okSends, eventsLeft>>

(* ------------------------------- Next ---------------------------------- *)
MsgIds == DOMAIN msgs

\* the manager's discovery and the clients' events
Registry ==
  \/ \E ok \in BOOLEAN : fetchInstances(ok)
  \/ \E i \in Ids : pollForNewInstances(i)
  \/ \E h \in HandleIds : initializeResolved(h)
  \/ \E h \in HandleIds : initializeRejected(h)
  \/ \E h \in HandleIds : onQr(h)
  \/ \E h \in HandleIds, ok \in BOOLEAN : onQrWritten(h, ok)
  \/ \E h \in HandleIds : onAuthenticated(h)
  \/ \E h \in HandleIds : onReady(h)
  \/ \E h \in HandleIds, ok \in BOOLEAN : onReadyWritten(h, ok)
  \/ \E h \in HandleIds : onDisconnected(h)
  \/ \E h \in HandleIds, ok \in BOOLEAN : onDisconnectedWritten(h, ok)
  \/ \E h \in HandleIds : onAuthFailure(h)

\* the single-session client's events
SoloEvents ==
  \/ soloQr
  \/ soloAuthenticated
  \/ soloReady
  \/ soloDisconnected
  \/ soloAuthFailure

\* the two queue consumers
Dispatch ==
  \/ \E m \in MsgIds : processMultiInstanceMessages(m)
  \/ \E m \in MsgIds : processMessages(m)
  \/ \E m \in MsgIds : sendRejected(m)
  \/ \E m \in MsgIds : sendResolved(m)
  \/ \E m \in MsgIds, ok \in BOOLEAN : counterWritten(m, ok)
  \/ \E m \in MsgIds : delayDone(m)

\* the gateway as index.js runs it, in either mode
Next ==
  \/ \E ok \in BOOLEAN : initialize(ok)
  \/ Registry
  \/ SoloEvents
  \/ Dispatch

Spec == Init /\ [][Next]_vars

SpecPair == InitPair /\ [][Next]_vars

\* the manager under every use of its interface: destroyClient is exported
\* but index.js never calls it
NextRegistry ==
  \/ \E ok \in BOOLEAN : initialize(ok)
  \/ Registry
  \/ \E i \in Ids : destroyClient(i)
  \/ \E h \in HandleIds, ok \in BOOLEAN : destroyResolved(h, ok)

SpecRegistry == InitRegistry /\ [][NextRegistry]_vars

(* ----------------------------- discovery ------------------------------- *)
\* the control plane switches a row of whatsapp_instances on or off
setActive(i, b) ==
  /\ store[i].is_active # b
  /\ store' = [store EXCEPT ![i].is_active = b]
  /\ UNCHANGED <<cfgVars, soloVars, regVars, msgs, statusQueue, lifecycle, okSends,
                 eventsLeft>>

InitDiscovery == StartWith({"multi"}, <<>>, PollHandles, PollEvents, {"A"})

\* the manager polling a table whose rows change
NextDiscovery ==
  \/ \E ok \in BOOLEAN : initialize(ok)
  \/ Registry
  \/ \E i \in Ids, b \in BOOLEAN : setActive(i, b)

SpecDiscovery == InitDiscovery /\ [][NextDiscovery]_vars

\* the same service with a store whose fetch query fails up to FetchFails times
InitFetch == StartFull({"multi"}, <<>>, FetchHandles, PollEvents, {"A"}, FetchFails)

SpecFetch == InitFetch /\ [][NextDiscovery]_vars

(* ------------------------- status channel faults ----------------------- *)
\* sendToQueue starts or stops throwing (the channel was closed by the
\* broker, or it is open again)
channelFault(b) ==
  /\ phase = "running" /\ b # channelOk
  /\ channelOk' = b
  /\ UNCHANGED <<mode, phase, handlesLeft, cleanupVars, fetchFailsLeft, reply, soloVars,
                 regVars, store, msgs, statusQueue, lifecycle, okSends, eventsLeft>>

\* one request, routed or not, and a status channel that comes and goes
InitPublish ==
  \E q \in [MsgSlots -> {NewMsg(p) : p \in {WellFormed("A"), NoInstance}}] :
    Start(Modes, q, PairHandles, MaxEvents)

NextPublish ==
  \/ Next
  \/ \E b \in BOOLEAN : channelFault(b)

SpecPublish == InitPublish /\ [][NextPublish]_vars

(* ---------------------------- HTTP endpoints --------------------------- *)
\* res.json(...) / res.status(...).json(...): the response goes out and no
\* state of the service is assigned
Answer(r) ==
  /\ reply' = r
  /\ UNCHANGED <<mode, phase, handlesLeft, cleanupVars, channelOk, fetchFailsLeft,
                 soloVars, regVars, store, msgs, statusQueue, lifecycle, okSends,
                 eventsLeft>>

\* GET /health
getHealth == Answer(Response(200, isReady, currentQR, clientInfo, {}))

\* GET /qr
getQr ==
  Answer(IF currentQR THEN Response(200, FALSE, TRUE, FALSE, {})
         ELSE IF isReady THEN Response(200, TRUE, FALSE, clientInfo, {})
         ELSE Response(404, FALSE, FALSE, FALSE, {}))

\* GET /status
getStatus ==
  Answer(IF HasManager THEN Response(200, FALSE, FALSE, FALSE, getActiveInstances)
         ELSE Response(200, isReady, currentQR, clientInfo, {}))

\* GET /instances/:instanceId/qr handing the QR out once
getInstanceQrConsuming(i) ==
  /\ reply' = IF ~HasManager THEN Response(400, FALSE, FALSE, FALSE, {})
              ELSE IF getQRCode(i) THEN Response(200, FALSE, TRUE, FALSE, {})
              ELSE Response(404, FALSE, FALSE, FALSE, {})
  /\ pendingQRCodes' = pendingQRCodes \ {i}
  /\ UNCHANGED <<mode, phase, handlesLeft, cleanupVars, channelOk, fetchFailsLeft,
                 soloVars, activeClients, handles, tasks, destroying, fetched, store,
                 msgs, statusQueue, lifecycle, okSends, eventsLeft>>

\* GET /instances/:instanceId/qr
getInstanceQr(i) ==
  Answer(IF ~HasManager THEN Response(400, FALSE, FALSE, FALSE, {})
         ELSE IF getQRCode(i) THEN Response(200, FALSE, TRUE, FALSE, {})
         ELSE Response(404, FALSE, FALSE, FALSE, {}))

\* GET /instances
getInstances ==
  Answer(IF ~HasManager THEN Response(400, FALSE, FALSE, FALSE, {})
         ELSE Response(200, FALSE, FALSE, FALSE, getActiveInstances))

\* one request in the work queue and HTTP clients querying at any moment
InitQuery ==
  Start(Modes, [m \in MsgSlots |-> NewMsg(WellFormed("A"))], PairHandles, QueryEvents)

NextQuery ==
  \/ Next
  \/ getHealth
  \/ getQr
  \/ getStatus
  \/ \E i \in Ids : getInstanceQr(i)
  \/ getInstances

SpecQuery == InitQuery /\ [][NextQuery]_vars

(* ------------------------------ routing -------------------------------- *)
\* multi-session mode with both rows active and one well-formed request for
\* either instance in the work queue
InitRoute ==
  \E q \in [MsgSlots -> {NewMsg(WellFormed(i)) : i \in Ids}] :
    StartWith({"multi"}, q, MaxHandles, RouteEvents, Ids)

NextRoute ==
  \/ \E ok \in BOOLEAN : initialize(ok)
  \/ Registry
  \/ \E m \in MsgIds : processMultiInstanceMessages(m)
  \/ \E m \in MsgIds : sendRejected(m)
  \/ \E m \in MsgIds : sendResolved(m)
  \/ \E m \in MsgIds, ok \in BOOLEAN : counterWritten(m, ok)
  \/ \E m \in MsgIds : delayDone(m)

SpecRoute == InitRoute /\ [][NextRoute]_vars

(* ------------------------------ shutdown ------------------------------- *)
\* the clients of the entries the iterator of cleanup() has not reached: an
\* entry set while the loop is suspended is appended to the Map and visited
Unvisited ==
  IF mode = "multi" THEN {EntryOf(i) : i \in {j \in Ids : Has(j)}} \ cleanupSeen ELSE {}

\* the Map iterates in insertion order, which is construction order
NextVisit(s) == CHOOSE h \in s : \A g \in s : h <= g

\* SIGINT / SIGTERM while the service runs: the handler calls
\* instanceManager.cleanup(), which calls destroy() on the first entry's
\* client (or clears the empty maps and calls pool.end()), or it calls
\* whatsappClient.destroy()
onSignal ==
  /\ phase = "running"
  /\ IF mode = "single"
       THEN /\ phase' = "stopping"
            /\ cleanupAt' = {0} /\ cleanupSeen' = {0}
            /\ UNCHANGED pendingQRCodes
       ELSE IF Unvisited = {}
         THEN /\ phase' = "ending"
              /\ pendingQRCodes' = {}
              /\ UNCHANGED <<cleanupAt, cleanupSeen>>
         ELSE /\ phase' = "stopping"
              /\ cleanupAt' = {NextVisit(Unvisited)}
              /\ cleanupSeen' = {NextVisit(Unvisited)}
              /\ UNCHANGED pendingQRCodes
  /\ UNCHANGED <<mode, envVars, handlesLeft, poolOpen, soloVars, activeClients, handles,
                 tasks, destroying, fetched, store, msgs, statusQueue, lifecycle, okSends,
                 eventsLeft>>

\* an awaited client.destroy() of cleanup() resolves or rejects (a rejection
\* is logged) and the loop calls destroy() on the next entry's client
cleanupDestroy(h, ok) ==
  /\ phase = "stopping" /\ h \in cleanupAt
  /\ Unvisited # {}
  /\ cleanupAt' = {NextVisit(Unvisited)}
  /\ cleanupSeen' = cleanupSeen \cup {NextVisit(Unvisited)}
  /\ handles' = IF ok THEN [handles EXCEPT ![h].destroyed = TRUE] ELSE handles
  /\ UNCHANGED <<mode, envVars, phase, handlesLeft, poolOpen, soloVars, activeClients,
                 pendingQRCodes, tasks, destroying, fetched, store, msgs, statusQueue,
                 lifecycle, okSends, eventsLeft>>

\* what the broker does with a delivery when the connection goes away: an
\* unacknowledged one returns to the queue
Abandon(d) ==
  [d EXCEPT !.st = CASE d.st \in {"sending", "counting", "crashed"} -> "queued"
                     [] d.st = "delay" -> "acked"
                     [] OTHER -> d.st]

\* process.exit(0): every suspended callback and every client is gone
processExit ==
  /\ phase' = "stopped"
  /\ msgs' = [m \in DOMAIN msgs |-> Abandon(msgs[m])]
  /\ tasks' = {}
  /\ destroying' = {}
  /\ fetched' = {}
  /\ handles' = [h \in HandleIds |->
                   [handles[h] EXCEPT !.destroyed = TRUE,
                                      !.init = IF @ = "pending" THEN "failed" ELSE @]]
  /\ isReady' = FALSE
  /\ UNCHANGED <<mode, envVars, handlesLeft, cleanupVars, currentQR, clientInfo, activeClients,
                 pendingQRCodes, store, statusQueue, lifecycle, okSends, eventsLeft>>

\* the last awaited destroy() settles: cleanup() clears both maps and calls
\* pool.end(); the single-session handler goes on to rabbitChannel.close(),
\* or, when whatsappClient.destroy() rejected, to its catch and exits at once
cleanupDone(h, ok) ==
  /\ phase = "stopping" /\ h \in cleanupAt
  /\ Unvisited = {}
  /\ IF mode = "single" /\ ~ok
       THEN processExit
       ELSE /\ cleanupAt' = {}
            /\ phase' = IF mode = "multi" THEN "ending" ELSE "closing"
            /\ handles' = IF ok /\ h # 0 THEN [handles EXCEPT ![h].destroyed = TRUE]
                                          ELSE handles
            /\ activeClients' = IF mode = "multi" THEN [i \in Ids |-> NoEntry]
                                                  ELSE activeClients
            /\ pendingQRCodes' = IF mode = "multi" THEN {} ELSE pendingQRCodes
            /\ UNCHANGED <<mode, envVars, handlesLeft, cleanupSeen, poolOpen, soloVars,
                           tasks, destroying, fetched, store, msgs, statusQueue,
                           lifecycle, okSends, eventsLeft>>

\* pool.end() resolves and the signal handler calls rabbitChannel.close(), or
\* it rejects into the catch of the signal handler, which exits at once
poolEnded(ok) ==
  /\ phase = "ending"
  /\ IF ok
       THEN /\ phase' = "closing"
            /\ poolOpen' = FALSE
            /\ UNCHANGED <<mode, envVars, handlesLeft, cleanupAt, cleanupSeen, soloVars,
                           regVars, store, msgs, statusQueue, lifecycle, okSends,
                           eventsLeft>>
       ELSE processExit

\* the channel and the connection are closed: process.exit(0)
shutdownExit ==
  /\ phase = "closing"
  /\ processExit

\* one well-formed request waits in the work queue when the service starts
InitShutdown ==
  Start(Modes, [m \in MsgSlots |-> NewMsg(WellFormed("A"))], MaxHandles, MaxEvents)

NextShutdown ==
  \/ Next
  \/ onSignal
  \/ \E h \in cleanupAt, ok \in BOOLEAN : cleanupDestroy(h, ok)
  \/ \E h \in cleanupAt, ok \in BOOLEAN : cleanupDone(h, ok)
  \/ \E ok \in BOOLEAN : poolEnded(ok)
  \/ shutdownExit

SpecShutdown == InitShutdown /\ [][NextShutdown]_vars

(* -------------------------- phone normalisation ------------------------ *)
\* strings are sequences of one-character strings
Digits == {"0", "1", "2", "3", "4", "5", "6", "7", "8", "9"}
DigitChar == <<"0", "1", "2", "3", "4", "5", "6", "7", "8", "9">>
Suffix == <<"@", "c", ".", "u", "s">>

\* phone_number.replace(/[^0-9]/g, ''): every character that is not an ASCII
\* digit is removed, left to right
RECURSIVE replaceNonDigits(_)
replaceNonDigits(str) ==
  IF str = <<>> THEN <<>>
  ELSE IF Head(str) \in Digits THEN <<Head(str)>> \o replaceNonDigits(Tail(str))
       ELSE replaceNonDigits(Tail(str))

\* String.prototype.startsWith
startsWith(str, pre) == Len(str) >= Len(pre) /\ SubSeq(str, 1, Len(pre)) = pre

\* the formatting of sendMessage with the country-code test left out
formattedNumberAlwaysPrefixed(phoneNumber) ==
  LET stripped == replaceNonDigits(phoneNumber)
  IN  (IF Len(stripped) = 10 THEN <<"9", "1">> \o stripped ELSE stripped) \o Suffix

\* MultiInstanceManager.sendMessage: the address handed to client.sendMessage
formattedNumber(phoneNumber) ==
  LET stripped == replaceNonDigits(phoneNumber)
  IN  (IF ~startsWith(stripped, <<"9", "1">>) /\ Len(stripped) = 10
         THEN <<"9", "1">> \o stripped
         ELSE stripped) \o Suffix

\* processMessages: the address handed to whatsappClient.sendMessage
soloFormattedNumber(phone_number) ==
  LET stripped == replaceNonDigits(phone_number)
  IN  (IF ~startsWith(stripped, <<"9", "1">>) /\ Len(stripped) = 10
         THEN <<"9", "1">> \o stripped
         ELSE stripped) \o Suffix

\* number bodies: the first k digits of 9876543210987... and of 9123456789012...
Descending(k) == [n \in 1..k |-> DigitChar[((10 - (n % 10)) % 10) + 1]]
NinetyOne(k) == [n \in 1..k |-> IF n = 1 THEN "9" ELSE DigitChar[((n - 1) % 10) + 1]]
Bodies == {Descending(k) : k \in 0..MaxDigits} \cup {NinetyOne(k) : k \in 0..MaxDigits}

\* the body as typed, or with a dash after its fifth digit
Dashed(b) == IF Len(b) > 5 THEN SubSeq(b, 1, 5) \o <<"-">> \o SubSeq(b, 6, Len(b)) ELSE b

\* what a sender may put in front of the body
Prefixes == {<<>>, <<"+">>, <<"9", "1">>, <<"+", "9", "1">>, <<"+", "9", "1", " ">>,
             <<"0">>, <<"(", "0", ")">>}

PhoneInputs == {pre \o b : pre \in Prefixes, b \in Bodies \cup {Dashed(c) : c \in Bodies}}

\* a request whose phone_number is the string str, before it is formatted
PhoneJob(str) == [payload |-> Payload(TRUE, "A", str, TRUE), st |-> "queued", to |-> None]

InitPhone ==
  \E str \in PhoneInputs : Start(Modes, [m \in MsgSlots |-> PhoneJob(str)], 0, 0)

\* the formatting lines of the two consumers, on their own
formatDestination(m) ==
  /\ msgs[m].st = "queued"
  /\ msgs' = [msgs EXCEPT ![m].st = "formatted",
                          ![m].to = IF mode = "multi"
                                      THEN formattedNumber(msgs[m].payload.phone_number)
                                      ELSE soloFormattedNumber(msgs[m].payload.phone_number)]
  /\ UNCHANGED <<cfgVars, soloVars, regVars, store, statusQueue, lifecycle, okSends,
                 eventsLeft>>

NextPhone == \E m \in MsgIds : formatDestination(m)

SpecPhone == InitPhone /\ [][NextPhone]_vars


(* ------------------------- fairness for liveness ----------------------- *)
\* the broker redelivers a queued message, a provider send and a store
\* write complete, and the delay timer fires
Fairness ==
  \A m \in MsgSlots :
    /\ WF_vars(processMultiInstanceMessages(m))
    /\ WF_vars(processMessages(m))
    /\ WF_vars(sendResolved(m) \/ sendRejected(m))
    /\ WF_vars(\E ok \in BOOLEAN : counterWritten(m, ok))
    /\ WF_vars(delayDone(m))

SpecLive == Init /\ [][Next]_vars /\ Fairness

(* ======================= properties of the claims ====================== *)
\* number of status events of a kind published for message m in queue q
StatusCount(q, kind, m) ==
  BagCardinality([e \in {x \in BagToSet(q) : x.status = kind /\ x.message_id = m}
                    |-> CopiesIn(e, q)])

WellFormedMsg(m) ==
  /\ msgs[m].payload.json /\ msgs[m].payload.phone_number /\ msgs[m].payload.message
  /\ mode = "multi" => msgs[m].payload.instance_id # None

\* a parsed request that lacks a required field
MalformedMsg(m) == msgs[m].payload.json /\ ~WellFormedMsg(m)

\* the registry's readiness of the session a request names
ReadyFor(m) == IF mode = "multi" THEN getClient(msgs[m].payload.instance_id) # 0
                                 ELSE isReady

\* the handler of m has returned (or never ran)
Settled(m) == msgs[m].st \in {"queued", "acked", "dropped", "crashed"}

Resolutions(m) == msgs[m].acks + msgs[m].requeues + msgs[m].drops

\* C1: whenever the consumer invokes the provider send for a session, the
\* last state-changing provider event of that session was `ready`
C1_SendOnlyWhenLifecycleReady ==
  [][\A m \in MsgSlots :
       msgs'[m].sends > msgs[m].sends => lifecycle[Target(m)] = "ready"]_vars

\* C2: every delivery whose handler has returned was resolved exactly once
\* (ack, nack with requeue or nack without requeue), whatever the payload
C2_ResolvedExactlyOnce ==
  \A m \in MsgIds : Settled(m) => Resolutions(m) = msgs[m].delivered

\* C3: a parsed request that lacks a required field is never requeued, never
\* acked and never handed to the provider; once handled it was dropped with
\* a message_failed status
C3_MalformedRejected ==
  \A m \in MsgIds :
    MalformedMsg(m) =>
      /\ msgs[m].requeues = 0 /\ msgs[m].acks = 0 /\ msgs[m].sends = 0
      /\ msgs[m].delivered > 0 =>
           msgs[m].drops = 1 /\ StatusCount(statusQueue, "message_failed", m) = 1

\* C4: the delivery of a well-formed request whose session is absent from
\* the registry or not ready there ends in a nack with requeue, publishes
\* exactly one status, a message_failed for that request, and invokes no
\* provider send
C4_NotReadyRequeued ==
  [][\A m \in MsgSlots :
       (WellFormedMsg(m) /\ ~ReadyFor(m) /\ msgs'[m].delivered = msgs[m].delivered + 1) =>
         /\ msgs'[m].st = "queued"
         /\ msgs'[m].requeues = msgs[m].requeues + 1
         /\ msgs'[m].drops = msgs[m].drops /\ msgs'[m].acks = msgs[m].acks
         /\ msgs'[m].sends = msgs[m].sends
         /\ BagCardinality(statusQueue') = BagCardinality(statusQueue) + 1
         /\ StatusCount(statusQueue', "message_failed", m)
              = StatusCount(statusQueue, "message_failed", m) + 1]_vars

C4_Witness ==
  \E m \in MsgIds :
    /\ WellFormedMsg(m) /\ msgs[m].requeues = 1 /\ msgs[m].sends = 0
    /\ StatusCount(statusQueue, "message_failed", m) = 1

\* number of message_failed events for m that carry the provider's error
ProviderFailures(q, m) ==
  BagCardinality([e \in {x \in BagToSet(q) : x.status = "message_failed"
                                            /\ x.message_id = m /\ x.error = ErrProvider}
                    |-> CopiesIn(e, q)])

\* C5: when the provider send of a request fails, the delivery is nacked
\* without requeue, not acked and not requeued, and exactly one status is
\* published: a message_failed with the request's message_id and the error
C5_SendFailureDropped ==
  [][\A m \in MsgSlots :
       (msgs[m].st = "sending" /\ msgs'[m].st # "sending"
          /\ okSends'[Target(m)] = okSends[Target(m)]) =>
         /\ msgs'[m].st = "dropped"
         /\ msgs'[m].drops = msgs[m].drops + 1
         /\ msgs'[m].requeues = msgs[m].requeues /\ msgs'[m].acks = msgs[m].acks
         /\ BagCardinality(statusQueue') = BagCardinality(statusQueue) + 1
         /\ ProviderFailures(statusQueue', m) = ProviderFailures(statusQueue, m) + 1]_vars

C5_Witness ==
  \E m \in MsgIds :
    /\ msgs[m].st = "dropped" /\ msgs[m].sends = 1 /\ msgs[m].acks = 0
    /\ ProviderFailures(statusQueue, m) = 1


\* number of message_sent events published for m
SentCount(m) == StatusCount(statusQueue, "message_sent", m)

\* requests whose counter update is pending for session i
Counting(i) == {m \in MsgIds : msgs[m].st = "counting" /\ msgs[m].payload.instance_id = i}

\* C6 as stated: whenever no counter update is pending, the sent-counter of
\* every session equals the number of successful provider sends through it
C6_CounterEqualsSends ==
  \A i \in Ids : Counting(i) = {} => store[i].messages_sent = okSends[i]

\* C6 as amended: a request that was sent successfully was handed to the
\* provider once, acked once, never nacked, and has exactly one message_sent
\* status; the sent-counter of a session never exceeds the successful sends
\* through it whose counter update has completed (it is incremented by one
\* when that update succeeds and not at all when it fails)
C6_SuccessfulSend ==
  /\ \A m \in MsgIds :
       msgs[m].st \in {"delay", "acked"} =>
         /\ msgs[m].sends = 1 /\ msgs[m].acks = 1 /\ msgs[m].drops = 0
         /\ SentCount(m) = 1
  /\ \A m \in MsgIds : msgs[m].acks = 0 => SentCount(m) = 0
  /\ \A i \in Ids : store[i].messages_sent + Cardinality(Counting(i)) <= okSends[i]
  /\ \A i \in Ids : okSends[i] <= Cardinality({m \in MsgIds : msgs[m].sends = 1})

C6_Witness ==
  /\ \A m \in MsgIds : msgs[m].st = "acked" /\ SentCount(m) = 1
  /\ store["A"].messages_sent = 2
  /\ okSends["A"] = 2

\* C7: a well-formed request is never dropped or acked before the provider
\* was invoked for it, an acked request has exactly one message_sent status,
\* and if from some point on its session stays ready in the registry then
\* the request is eventually handed to the provider and, unless the
\* provider send fails, acked
C7_AtLeastOnce ==
  /\ [](\A m \in MsgSlots :
          WellFormedMsg(m) =>
            /\ msgs[m].sends = 0 => (msgs[m].drops = 0 /\ msgs[m].acks = 0)
            /\ msgs[m].acks > 0 => (msgs[m].acks = 1 /\ SentCount(m) = 1))
  /\ \A m \in MsgSlots :
       (WellFormedMsg(m) /\ <>[](phase = "running" /\ ReadyFor(m))) =>
          <>(msgs[m].acks = 1 \/ msgs[m].drops = 1)

C7_Witness ==
  \E m \in MsgIds :
    /\ WellFormedMsg(m) /\ msgs[m].requeues = 1 /\ msgs[m].st = "acked"
    /\ SentCount(m) = 1 /\ ReadyFor(m)

\* C8: once `disconnected` was delivered for a session, no request for it is
\* nacked without requeue, and the registry does not report it ready
C8_DisconnectRequeues ==
  /\ [](\A i \in Ids : lifecycle[i] = "disconnected" => getClient(i) = 0)
  /\ [](lifecycle[Solo] = "disconnected" => ~isReady)
  /\ [][\A m \in MsgSlots :
          (WellFormedMsg(m) /\ lifecycle[Target(m)] = "disconnected") =>
             msgs'[m].drops = msgs[m].drops]_vars

\* C9: a pending QR is stored exactly while the session is in qr_pending
C9_QrIffPending ==
  /\ \A i \in Ids : (i \in pendingQRCodes) <=> (lifecycle[i] = "qr_pending")
  /\ currentQR <=> (lifecycle[Solo] = "qr_pending")

\* the live clients constructed for instance i
LiveHandles(i) == {h \in HandleIds : handles[h].id = i /\ Live(h)}

\* C10: at most one live client exists per instance id
C10_OneLiveHandle == \A i \in Ids : Cardinality(LiveHandles(i)) <= 1

\* C11: no registry entry points at a handle that is disconnected, failed to
\* initialize or was destroyed, and every handle that was not destroyed is
\* the one its id is registered under
C11_EntryAndHandleTogether ==
  /\ \A i \in Ids :
       Has(i) => /\ handles[EntryOf(i)].init # "failed"
                 /\ ~handles[EntryOf(i)].destroyed
                 /\ handles[EntryOf(i)].state # "disconnected"
  /\ \A h \in HandleIds : ~handles[h].destroyed => EntryOf(handles[h].id) = h

\* the handler of event kind of handle h returns in this step
Returns(h, kind) == Task(h, kind) \in tasks /\ Task(h, kind) \notin tasks'

\* C12: when the disconnected handler of a handle returns, its id has no
\* registry entry, and a poll iteration that visits an active instance whose
\* session is disconnected constructs a new handle for it
C12_DisconnectRemovesEntry ==
  /\ [][\A h \in HandleIds :
          Returns(h, "disconnected") => activeClients'[handles[h].id].client = 0]_vars
  /\ [][\A i \in Ids :
          (i \in fetched /\ i \notin fetched' /\ handlesLeft > 0
             /\ lifecycle[i] = "disconnected" /\ tasks = {}) =>
            Len(handles') = Len(handles) + 1]_vars

\* deliveries whose handler is between its start and its return
InFlight == {m \in MsgIds : msgs[m].st \in {"sending", "counting", "delay"}}

\* C13: at most one delivery is being handled at a time, so two provider
\* sends never overlap
C13_OneInFlight == Cardinality(InFlight) <= 1

\* C15: when the ready handler of the registered handle returns, the entry
\* is ready, and when its disconnected handler returns, the entry is not
\* ready, whether or not the store write succeeded
C15_TransitionDespiteWriteFailure ==
  /\ [][\A h \in HandleIds :
          (Returns(h, "ready") /\ EntryOf(handles[h].id) = h
             /\ handles[h].state = "ready") =>
            activeClients'[handles[h].id].isReady]_vars
  /\ [][\A h \in HandleIds :
          (Returns(h, "disconnected") /\ EntryOf(handles[h].id) = h
             /\ handles[h].state = "disconnected") =>
            ~activeClients'[handles[h].id].isReady]_vars

\* a parsed multi-session request that carries no instance_id
Unrouted(m) == mode = "multi" /\ msgs[m].payload.json /\ msgs[m].payload.instance_id = None

\* C19: in multi-session mode the delivery of a request without instance_id
\* is nacked without requeue with exactly one message_failed status, and the
\* provider send is never invoked for it
C19_NoInstanceDropped ==
  /\ [](\A m \in MsgSlots : Unrouted(m) => msgs[m].sends = 0 /\ msgs[m].requeues = 0)
  /\ [][\A m \in MsgSlots :
          (Unrouted(m) /\ msgs'[m].delivered = msgs[m].delivered + 1) =>
            /\ msgs'[m].st = "dropped"
            /\ msgs'[m].drops = msgs[m].drops + 1
            /\ msgs'[m].acks = msgs[m].acks
            /\ BagCardinality(statusQueue') = BagCardinality(statusQueue) + 1
            /\ StatusCount(statusQueue', "message_failed", m)
                 = StatusCount(statusQueue, "message_failed", m) + 1]_vars

C19_Witness ==
  \E m \in MsgIds :
    /\ Unrouted(m) /\ msgs[m].st = "dropped" /\ msgs[m].drops = 1
    /\ StatusCount(statusQueue, "message_failed", m) = 1
    /\ \E i \in Ids : getClient(i) # 0

\* deliveries whose handler has invoked the provider and not yet acked
Unacked == {m \in MsgIds : msgs[m].st \in {"sending", "counting"}}

\* the signal handler has already visited the client m is being sent through
TornDown(m) == msgs[m].via \in cleanupSeen \ cleanupAt

\* C14: once the signal arrived no new delivery is taken; the signal handler
\* destroys a client, and exits, only when no send is unacknowledged; and no
\* request in flight through a client the handler has torn down is nacked
\* without requeue
C14_GracefulShutdown ==
  /\ [][\A m \in MsgSlots :
          phase \in {"stopping", "ending", "closing"} => msgs'[m].delivered = msgs[m].delivered]_vars
  /\ [][(phase = "stopping" /\ cleanupAt' # cleanupAt) => Unacked = {}]_vars
  /\ [][(phase = "closing" /\ phase' = "stopped") => Unacked = {}]_vars
  /\ [][\A m \in MsgSlots :
          (msgs[m].st = "sending" /\ TornDown(m)) => msgs'[m].drops = msgs[m].drops]_vars

\* the digits of a string, in order
DigitsOf(str) == SelectSeq(str, LAMBDA c : c \in Digits)

\* the address the normalisation rule prescribes for a string
Prescribed(str) ==
  LET D == DigitsOf(str)
  IN  IF Len(D) = 10 /\ <<D[1], D[2]>> # <<"9", "1">> THEN <<"9", "1">> \o D \o Suffix
                                                      ELSE D \o Suffix

\* C16: in both modes the address is the digits of the input, prefixed with
\* 91 exactly when there are ten of them and they do not start with 91,
\* followed by @c.us
C16_PhoneNormalised ==
  \A m \in MsgIds :
    msgs[m].st = "formatted" => msgs[m].to = Prescribed(msgs[m].payload.phone_number)

\* "+91 98765-43210" and "9876543210" both became "919876543210@c.us"
C16_Witness ==
  \E m \in MsgIds :
    /\ msgs[m].st = "formatted"
    /\ msgs[m].payload.phone_number \in
         {<<"9", "8", "7", "6", "5", "4", "3", "2", "1", "0">>,
          <<"+", "9", "1", " ", "9", "8", "7", "6", "5", "-", "4", "3", "2", "1", "0">>}
    /\ msgs[m].to = <<"9", "1", "9", "8", "7", "6", "5", "4", "3", "2", "1", "0",
                      "@", "c", ".", "u", "s">>

\* str consists of exactly k digits
National(str, k) == Len(str) = k /\ \A n \in 1..Len(str) : str[n] \in Digits

\* C17: for every 10-digit national number n, the inputs n, "91" n and
\* "+91" n are all converted to "91" n "@c.us"
C17_ThreeFormatsAgree ==
  \A m \in MsgIds :
    LET str == msgs[m].payload.phone_number
    IN  msgs[m].st = "formatted" =>
          /\ National(str, 10) => msgs[m].to = <<"9", "1">> \o str \o Suffix
          /\ (National(str, 12) /\ startsWith(str, <<"9", "1">>)) =>
               msgs[m].to = str \o Suffix
          /\ (Len(str) = 13 /\ National(Tail(str), 12)
                /\ startsWith(str, <<"+", "9", "1">>)) =>
               msgs[m].to = Tail(str) \o Suffix

\* C18: the provider send of a request is invoked on the client registered
\* under the request's instance_id, and only that instance's counters move
\* when the request is sent
C18_RoutedToOwnSession ==
  /\ [](\A m \in MsgSlots :
          msgs[m].sends > 0 => handles[msgs[m].via].id = msgs[m].payload.instance_id)
  /\ [][\A m \in MsgSlots :
          msgs'[m].sends > msgs[m].sends =>
            msgs'[m].via = EntryOf(msgs[m].payload.instance_id)]_vars
  /\ [][\A i \in Ids :
          (store'[i].messages_sent # store[i].messages_sent \/ okSends'[i] # okSends[i]) =>
            \E m \in MsgSlots : msgs[m].payload.instance_id = i /\ msgs'[m] # msgs[m]]_vars

\* a request for B was sent through B's client while A was registered as well
C18_Witness ==
  \E m \in MsgIds :
    /\ msgs[m].payload.instance_id = "B" /\ msgs[m].st = "acked"
    /\ handles[msgs[m].via].id = "B" /\ store["B"].messages_sent = 1
    /\ Has("A") /\ store["A"].messages_sent = 0

\* C20: a step of a poll (the fetched list grows or one of its entries is
\* visited) leaves every existing registry entry and every existing client
\* as it was; it registers a new client exactly when the visited id has no
\* entry, and then under that id
C20_PollFrame ==
  [][fetched' # fetched =>
       /\ \A j \in Ids : Has(j) => activeClients'[j] = activeClients[j]
       /\ \A h \in HandleIds : handles'[h] = handles[h]
       /\ pendingQRCodes' = pendingQRCodes
       /\ \A i \in Ids :
            IF i \in fetched /\ i \notin fetched' /\ ~Has(i)
              THEN /\ Len(handles') = Len(handles) + 1
                   /\ handles'[Len(handles')].id = i
                   /\ activeClients'[i] =
                        [client |-> Len(handles'), isReady |-> FALSE, clientInfo |-> FALSE]
              ELSE activeClients'[i] = activeClients[i]]_vars

\* B is registered and ready, its row was switched off, and a later poll
\* has fetched the list without it and visited what it fetched
C20_Witness ==
  /\ getClient("B") # 0 /\ ~store["B"].is_active
  /\ Has("A") /\ fetched = {}

\* the first provider callback of the session of handle h is this step's qr
FirstQr(h) ==
  /\ lifecycle[handles[h].id] = "unauthenticated"
  /\ handles[h].state = "unauthenticated" /\ handles'[h].state = "qr_pending"

\* C22: with row A active and row B inactive, every client is A's and B has
\* no entry; when the session of A gets qr as its first callback, A has a
\* pending QR, is in qr_pending and is not ready for dispatch
C22_OnlyActiveRegistered ==
  /\ [](\A h \in HandleIds : handles[h].id = "A")
  /\ [](~Has("B") /\ "B" \notin pendingQRCodes)
  /\ [][\A h \in HandleIds :
          FirstQr(h) =>
            /\ handles[h].id \in pendingQRCodes'
            /\ lifecycle'[handles[h].id] = "qr_pending"
            /\ ~(Has(handles[h].id) /\ activeClients'[handles[h].id].isReady)]_vars

\* A's first qr was handled: its QR is stored and its status published
C22_Witness ==
  /\ mode = "multi" /\ Has("A") /\ "A" \in pendingQRCodes
  /\ lifecycle["A"] = "qr_pending" /\ getClient("A") = 0
  /\ StatusCount(statusQueue, "qr_code", None) = 1

\* number of status events of a kind published for instance inst
StatusOf(q, kind, inst) ==
  BagCardinality([e \in {x \in BagToSet(q) : x.status = kind /\ x.instance_id = inst}
                    |-> CopiesIn(e, q)])

\* the instance_id a status event of session s carries
Tag(s) == IF s = Solo THEN None ELSE s

\* C24: the step that delivers auth_failure to a session publishes exactly
\* one status, an auth_failure of that session, and leaves the store, the
\* registry, the readiness flags and the pending QRs as they were
C24_AuthFailureFrame ==
  [][\A s \in Sessions :
       (lifecycle[s] # "auth_failure" /\ lifecycle'[s] = "auth_failure") =>
         /\ BagCardinality(statusQueue') = BagCardinality(statusQueue) + 1
         /\ StatusOf(statusQueue', "auth_failure", Tag(s))
              = StatusOf(statusQueue, "auth_failure", Tag(s)) + 1
         /\ store' = store
         /\ activeClients' = activeClients
         /\ pendingQRCodes' = pendingQRCodes
         /\ <<currentQR, isReady, clientInfo>>' = <<currentQR, isReady, clientInfo>>]_vars

\* auth_failure was delivered to a session whose QR was pending
C24_Witness ==
  \E s \in Sessions :
    /\ lifecycle[s] = "auth_failure"
    /\ StatusOf(statusQueue, "auth_failure", Tag(s)) = 1
    /\ IF s = Solo THEN currentQR ELSE s \in pendingQRCodes /\ Has(s)

\* C25: a step of the dispatch consumer (any step that changes a delivery)
\* changes no session's lifecycle state, readiness flag, pending QR or
\* registry entry, and constructs or destroys no client
C25_DispatchFrame ==
  [][msgs' # msgs =>
       /\ activeClients' = activeClients
       /\ pendingQRCodes' = pendingQRCodes
       /\ handles' = handles
       /\ lifecycle' = lifecycle
       /\ <<currentQR, isReady>>' = <<currentQR, isReady>>]_vars

\* a request was dropped after the provider rejected its send and the
\* session it was sent on is still ready
C25_Witness ==
  \E m \in MsgIds :
    /\ msgs[m].st = "dropped" /\ msgs[m].sends = 1
    /\ ReadyFor(m) /\ lifecycle[Target(m)] = "ready"

\* C26: once the disconnected handler of a session has run, the session has
\* no cached client identity: /status shows none in single-session mode and
\* the listing of registered instances shows none in multi-session mode
C26_NoIdentityAfterDisconnect ==
  /\ lifecycle[Solo] = "disconnected" => ~clientInfo
  /\ \A i \in Ids :
       (Has(i) /\ lifecycle[i] = "disconnected" /\ ~\E t \in tasks : handles[t.h].id = i)
         => ~Listing(i).client_info

\* C28: the callback of a delivery returns (the delivery back in the queue,
\* dropped, or acked and done) only from its delay step, whatever the outcome
C28_DelayAfterEveryRequest ==
  [][\A m \in MsgIds :
       (msgs'[m] # msgs[m] /\ msgs'[m].st \in {"queued", "dropped", "acked"})
         => msgs[m].st = "delay"]_vars

\* C29: every provider event delivered to a session puts exactly one status
\* of the matching kind in the status queue: a handler that awaits no store
\* write publishes in the step of the event, a handler that awaits one
\* publishes when it returns, whether the write succeeded or not
C29_OneStatusPerEvent ==
  [][/\ (eventsLeft' # eventsLeft /\ tasks' = tasks) =>
          BagCardinality(statusQueue') = BagCardinality(statusQueue) + 1
     /\ \A h \in HandleIds, kind \in {"qr", "ready", "disconnected"} :
          Returns(h, kind) =>
            StatusOf(statusQueue', StatusKind(kind), handles[h].id)
              = StatusOf(statusQueue, StatusKind(kind), handles[h].id) + 1]_vars

\* C30: when the counter update that follows a successful provider send
\* fails, the delivery is acked and one message_sent is published for it, and
\* it is neither nacked nor reported as failed
C30_CounterFailureStillSent ==
  [][\A m \in MsgIds :
       (msgs[m].st = "counting" /\ msgs'[m] # msgs[m] /\ store' = store) =>
         /\ msgs'[m].acks = msgs[m].acks + 1
         /\ msgs'[m].requeues = msgs[m].requeues /\ msgs'[m].drops = msgs[m].drops
         /\ SentCount(m)' = SentCount(m) + 1
         /\ StatusCount(statusQueue', "message_failed", m)
              = StatusCount(statusQueue, "message_failed", m)]_vars

\* a request was sent, its counter update failed, and it was acked
C30_Witness ==
  \E m \in MsgIds :
    /\ msgs[m].st \in {"delay", "acked"} /\ msgs[m].acks = 1 /\ msgs[m].drops = 0
    /\ mode = "multi" /\ okSends[Target(m)] = 1
    /\ store[msgs[m].payload.instance_id].messages_sent = 0
    /\ SentCount(m) = 1

\* the rows the fetch query returns
ActiveRows == {i \in Ids : store[i].is_active}

\* C21: a failed fetch of the desired-session list changes neither map, no
\* client, no running poll and not the service's phase; after a failure a
\* fetch returns the active rows as before and a poll iteration over an
\* unregistered instance registers it
C21_FetchFailureHarmless ==
  /\ [][fetchFailsLeft' # fetchFailsLeft =>
          /\ activeClients' = activeClients /\ pendingQRCodes' = pendingQRCodes
          /\ handles' = handles /\ fetched' = fetched /\ tasks' = tasks
          /\ phase' = phase]_vars
  /\ [][(fetchFailsLeft < FetchFails /\ fetched' # fetched /\ fetched \subseteq fetched')
          => fetched' = fetched \cup ActiveRows]_vars
  /\ [][\A i \in Ids :
          (fetchFailsLeft < FetchFails /\ i \in fetched /\ i \notin fetched' /\ ~Has(i))
            => Has(i)' /\ Len(handles') = Len(handles) + 1]_vars

\* an instance is registered under a client constructed after a failed fetch
C21_Witness ==
  \E h \in HandleIds :
    /\ handles[h].failsLeft < FetchFails
    /\ EntryOf(handles[h].id) = h /\ Live(h)

\* C23: while sendToQueue throws, nothing reaches the status queue and every
\* operation decides as it does otherwise: a request for a session that is
\* not ready is requeued, one without instance_id is dropped, a rejected send
\* is dropped, a completed send is acked, and the ready and disconnected
\* handlers set and clear the readiness flag
C23_PublishFailureHarmless ==
  [][~channelOk =>
       /\ statusQueue' = statusQueue
       /\ \A m \in MsgIds :
            /\ (WellFormedMsg(m) /\ ~ReadyFor(m) /\ msgs'[m].delivered = msgs[m].delivered + 1)
                 => /\ msgs'[m].st = "queued" /\ msgs'[m].requeues = msgs[m].requeues + 1
                    /\ msgs'[m].drops = msgs[m].drops /\ msgs'[m].acks = msgs[m].acks
            /\ (Unrouted(m) /\ msgs'[m].delivered = msgs[m].delivered + 1)
                 => /\ msgs'[m].st = "dropped" /\ msgs'[m].drops = msgs[m].drops + 1
                    /\ msgs'[m].requeues = msgs[m].requeues
            /\ (msgs[m].st = "sending" /\ msgs'[m].st # "sending"
                  /\ okSends'[Target(m)] = okSends[Target(m)])
                 => /\ msgs'[m].st = "dropped" /\ msgs'[m].drops = msgs[m].drops + 1
                    /\ msgs'[m].acks = msgs[m].acks
            /\ (msgs'[m].st = "delay" /\ msgs[m].st # "delay")
                 => /\ msgs'[m].acks = msgs[m].acks + 1
                    /\ msgs'[m].drops = msgs[m].drops
       /\ (mode = "single" /\ eventsLeft' # eventsLeft /\ lifecycle'[Solo] = "ready")
            => isReady'
       /\ (mode = "single" /\ eventsLeft' # eventsLeft /\ lifecycle'[Solo] = "disconnected")
            => ~isReady'
       /\ \A h \in HandleIds :
            /\ (Returns(h, "ready") /\ store' # store /\ Has(handles[h].id))
                 => activeClients'[handles[h].id].isReady
            /\ (Returns(h, "disconnected") /\ Has(handles[h].id))
                 => ~activeClients'[handles[h].id].isReady]_vars

\* a request was requeued because its session was not ready, and a session
\* became ready, while no status could be published
C23_Witness ==
  /\ ~channelOk
  /\ statusQueue = EmptyBag
  /\ \E m \in MsgIds : msgs[m].requeues = 1
  /\ lifecycle[IF mode = "multi" THEN "A" ELSE Solo] = "ready"
  /\ IF mode = "multi" THEN getClient("A") # 0 ELSE isReady

\* C27: a step that answers a status query (/health, /qr, /status,
\* /instances/:id/qr, /instances, and through them getActiveInstances and
\* getQRCode) leaves the registry, the pending QRs, the clients, the
\* readiness flags, the store and both queues unchanged
C27_QueriesArePure ==
  [][reply' # reply =>
       /\ activeClients' = activeClients /\ pendingQRCodes' = pendingQRCodes
       /\ handles' = handles /\ lifecycle' = lifecycle
       /\ <<currentQR, isReady, clientInfo>>' = <<currentQR, isReady, clientInfo>>
       /\ store' = store /\ msgs' = msgs /\ statusQueue' = statusQueue]_vars

\* the QR of an instance was served and is still stored
C27_Witness ==
  /\ HasManager /\ getQRCode("A")
  /\ reply = Response(200, FALSE, TRUE, FALSE, {})

\* nothing but the broker connection has been attempted
Idle ==
  /\ handles = <<>> /\ fetched = {} /\ tasks = {}
  /\ activeClients = [i \in Ids |-> NoEntry] /\ pendingQRCodes = {}
  /\ \A m \in MsgIds : msgs[m] = NewMsg(msgs[m].payload)
  /\ statusQueue = EmptyBag
  /\ lifecycle = [s \in Sessions |-> "unauthenticated"]
  /\ ~currentQR /\ ~isReady

\* C31: until connectRabbitMQ has succeeded no delivery is consumed, no
\* client is constructed or started, no instance is fetched and no provider
\* event arrives; a failed connection only leads to another attempt; once
\* the connection succeeds the service runs, whatever the startup fetch did
C31_StartupGated ==
  /\ [](phase = "connecting" => Idle)
  /\ [][phase = "connecting" =>
          /\ phase' \in {"connecting", "running"}
          /\ phase' = "connecting" => Idle']_vars

\* the broker connection succeeded, the startup fetch failed, and the
\* consumer has handled a delivery
C31_Witness ==
  /\ mode = "multi" /\ phase = "running"
  /\ handles = <<>> /\ fetched = {}
  /\ \E m \in MsgIds : msgs[m].delivered = 1

\* C32: cleanup() clears an entry only after it has called destroy() on the
\* entry's client, whether or not an earlier destroy() failed, and at the
\* moment cleanup() completes (pool.end() has resolved) both maps are empty
\* and the pool is closed
C32_CleanupTearsDown ==
  /\ [][(mode = "multi" /\ phase = "stopping" /\ phase' = "ending") =>
          \A i \in Ids : Has(i) => EntryOf(i) \in cleanupSeen]_vars
  /\ [][(mode = "multi" /\ phase = "ending" /\ phase' = "closing" /\ ~poolOpen') =>
          /\ activeClients' = [i \in Ids |-> NoEntry]
          /\ pendingQRCodes' = {}]_vars

\* the readiness the dispatch consumer sees for session s
ReadyOf(s) == IF s = Solo THEN isReady ELSE getClient(s) # 0

\* C33: both variants compute the same readiness from the events of a
\* session: when the handler of a qr or of a disconnected event has finished
\* (its store write succeeded) the session is not ready, in single-session
\* mode and, for the client the registry holds, in multi-session mode
C33_SameReadiness ==
  /\ [][(mode = "single" /\ eventsLeft' # eventsLeft
           /\ lifecycle'[Solo] \in {"qr_pending", "disconnected"}) => ~ReadyOf(Solo)']_vars
  /\ [][\A h \in HandleIds :
          (/\ Returns(h, "qr") \/ Returns(h, "disconnected")
           /\ statusQueue' # statusQueue
           /\ EntryOf(handles[h].id) = h) => ~ReadyOf(handles[h].id)']_vars

\* C34: once no handler of a session is suspended at its store write, a
\* session whose latest provider event is disconnected is not ready
C34_LatestEventWins ==
  \A i \in Ids :
    (lifecycle[i] = "disconnected" /\ ~\E t \in tasks : handles[t.h].id = i)
      => getClient(i) = 0

\* C35: in single-session mode the ready flag and a stored QR never hold
\* together, so the /status response never carries connected = true with
\* qr_pending = true, whatever events the client emitted
C35_ReadyExcludesQr ==
  mode = "single" =>
    /\ ~(isReady /\ currentQR)
    /\ LET r == Response(200, isReady, currentQR, clientInfo, {})
       IN  ~(r.ready /\ r.qr)

\* a QR arrived after the session had been ready: the flag was reset
C35_Witness ==
  /\ mode = "single"
  /\ currentQR /\ ~isReady /\ clientInfo
  /\ lifecycle[Solo] = "qr_pending"

\* C36: in multi-session mode every instance with a pending QR has a registry
\* entry: the keys of pendingQRCodes are among the keys of activeClients
C36_QrHasEntry ==
  mode = "multi" => \A i \in pendingQRCodes : Has(i)

\* a delivery of request m whose instance has no registry entry
AbsentDelivery(m) ==
  /\ mode = "multi"
  /\ WellFormedMsg(m)
  /\ msgs[m].st = "queued"
  /\ ~Has(msgs[m].payload.instance_id)
  /\ msgs[m].delivered' = msgs[m].delivered + 1

\* C38: in multi-session mode every delivery of a well-formed request whose
\* instance id has no registry entry ends in nack with requeue: the request
\* is back in the work queue with one failure status, neither acked nor
\* dropped, and no send was issued for it
C38_AbsentInstanceRequeued ==
  [][\A m \in MsgIds :
       AbsentDelivery(m) =>
         /\ msgs[m].st' = "queued"
         /\ msgs[m].requeues' = msgs[m].requeues + 1
         /\ msgs[m].acks' = msgs[m].acks
         /\ msgs[m].drops' = msgs[m].drops
         /\ msgs[m].sends' = msgs[m].sends
         /\ channelOk =>
              statusQueue' = statusQueue (+) SetToBag({StatusEvent("message_failed", m,
                                 msgs[m].payload.instance_id, ErrNotReady)})]_vars

\* a request was requeued while no client had been constructed for any
\* instance, and its failure status was published
C38_Witness ==
  /\ mode = "multi" /\ handles = <<>>
  /\ \E m \in MsgIds :
       /\ WellFormedMsg(m)
       /\ msgs[m].st = "queued" /\ msgs[m].requeues = 1
       /\ msgs[m].acks = 0 /\ msgs[m].drops = 0
       /\ BagIn(StatusEvent("message_failed", m, msgs[m].payload.instance_id,
                            ErrNotReady), statusQueue)

\* C37: once the provider send of a delivery has completed successfully, the
\* rest of its handler never takes the failure path: no nack is issued for
\* the delivery and no message_failed is published for it, even when the
\* publish of message_sent or the ack fails
C37_SentNeverFails ==
  [][\A m \in MsgIds :
       (msgs[m].st \in {"sending", "counting"}
          /\ (msgs[m].st = "sending" => okSends'[Target(m)] = okSends[Target(m)] + 1))
         => /\ msgs[m].drops' = msgs[m].drops
            /\ msgs[m].requeues' = msgs[m].requeues
            /\ \A e \in BagToSet(statusQueue') :
                 (e.status = "message_failed" /\ e.message_id = m)
                   => CopiesIn(e, statusQueue') = CopiesIn(e, statusQueue)]_vars
====
